---------------------------- MODULE Spec2Model ----------------------------
(***************************************************************************)
(* Model of src/ecs.rs: discovery of the container images run by the       *)
(* services of a fleet of ECS clusters.                                    *)
(*                                                                         *)
(* The control plane (the four remote operations) is a value `cp` fixed    *)
(* for a run; every remote call is a suspension point of the calling       *)
(* future, and a response action runs the future from that response to its *)
(* next suspension point (single-threaded cooperative scheduling).         *)
(*                                                                         *)
(* Encodings: Option<T> is a sequence of length <= 1 (None == <<>>,        *)
(* Some(x) == <<x>>); a cluster identifier is a sequence of one-character  *)
(* strings so that str::contains is a real substring test; a pagination    *)
(* token is a natural number; a request is a tuple <<op, cluster, arg>>;   *)
(* Result<T> is a record [kind, val, err].                                 *)
(***************************************************************************)
EXTENDS Naturals, Sequences, FiniteSets

VARIABLES
    cp,                \* the control plane: the responses of the remote API
    cluster_includes,  \* the argument of get_images_of_clusters
    pc,                \* get_images_of_clusters: "get_clusters", "join_all", "done"
    next_token,        \* list_clusters_req.next_token
    clusters,          \* get_clusters: the accumulator
    futures,           \* the get_images_of_a_cluster futures given to join_all
    res,               \* what get_images_of_clusters returned
    listed,            \* history: the tokens of the ListClusters requests issued
    failures           \* history: the failed requests, in order of occurrence

vars == <<cp, cluster_includes, pc, next_token, clusters, futures, res,
          listed, failures>>

---------------------------------------------------------------------------
(* Bounds of the model *)

MaxClusterPages == 2
MaxServicePages == 2
MaxContainers == 2
MaxIncludes == 2
MaxFaults == 2

\* the number of requests a request history keeps
MaxHistory == 12

---------------------------------------------------------------------------
(* Option, Result, requests *)

None == <<>>
Some(x) == <<x>>

Pending == [kind |-> "Pending", val |-> <<>>, err |-> <<>>]
Ok(v) == [kind |-> "Ok", val |-> v, err |-> <<>>]
Err(e) == [kind |-> "Err", val |-> <<>>, err |-> e]

NoCluster == <<>>

ListClustersReq(token) == <<"ListClusters", NoCluster, token>>
ListServicesReq(cluster, token) == <<"ListServices", cluster, token>>
DescribeServicesReq(cluster, arns) == <<"DescribeServices", cluster, arns>>
DescribeTaskDefinitionReq(td) == <<"DescribeTaskDefinition", NoCluster, <<td>>>>

---------------------------------------------------------------------------
(* Sequence helpers *)

\* filter_map(..).collect() over a sequence of Options, and Vec::extend over
\* a sequence of vectors: the concatenation, in order
RECURSIVE Flatten(_)
Flatten(ss) == IF ss = <<>> THEN <<>> ELSE Head(ss) \o Flatten(Tail(ss))

Range(s) == {s[i] : i \in DOMAIN s}

\* a request history: the requests in the order issued, the first MaxHistory
\* of them
Record(history, requests) ==
    IF Len(history) + Len(requests) <= MaxHistory THEN history \o requests
    ELSE SubSeq(history \o requests, 1, MaxHistory)

---------------------------------------------------------------------------
(* The control plane *)

\* The page a token names: an absent token names the first page.
PageOf(token) == IF token = None THEN 1 ELSE token[1]

ListClusters(token) == cp.clusterPages[PageOf(token)]

ListServices(cluster, token) == cp.servicePages[cluster][PageOf(token)]

\* The services the control plane knows, in the order asked for.
DescribedServices(arns) ==
    Flatten([i \in DOMAIN arns |-> cp.services[arns[i]]])

DescribeServices(cluster, arns) ==
    [fail |-> DescribeServicesReq(cluster, arns) \in cp.describeFail,
     services |-> IF DescribeServicesReq(cluster, arns) \in cp.describeNone
                  THEN None ELSE Some(DescribedServices(arns))]

DescribeTaskDefinition(td) == cp.taskDefinitions[td]

---------------------------------------------------------------------------
(* get_image_of_task_definition, lines 26-54 *)

Image(image_name, task_definition_name, service_name) ==
    [image_name |-> image_name,
     task_definition_name |-> task_definition_name,
     service_name |-> service_name]

\* mutant of Last: the first container definition is read
LastAsFirst(cds) == IF cds = <<>> THEN None ELSE Some(cds[1])

\* cds.last(): None for an empty vector
Last(cds) == IF cds = <<>> THEN None ELSE Some(cds[Len(cds)])

\* lines 39-53: the and_then chain over the response
ImageOfResponse(task_definition_res, service_name) ==
    IF task_definition_res.task_definition = None THEN None
    ELSE LET td == task_definition_res.task_definition[1] IN
         IF td.task_definition_arn = None THEN None
         ELSE IF td.container_definitions = None THEN None
         ELSE LET cd == Last(td.container_definitions[1]) IN
              IF cd = None THEN None
              ELSE IF cd[1].image = None THEN None
              ELSE Some(Image(cd[1].image[1], td.task_definition_arn[1],
                              service_name))

\* mutant of GetImageOfTaskDefinition: the Image is named after the
\* identifier queried, not after the ARN of the response
GetImageNamedAsQueried(task_definition, service_name) ==
    LET r == DescribeTaskDefinition(task_definition)
        o == ImageOfResponse(r, service_name) IN
    IF r.fail THEN Err(DescribeTaskDefinitionReq(task_definition))
    ELSE IF o = None THEN Ok(None)
    ELSE Ok(Some([o[1] EXCEPT !.task_definition_name = task_definition]))

\* lines 31-37 and 39: the await? then Ok(...)
GetImageOfTaskDefinition(task_definition, service_name) ==
    LET r == DescribeTaskDefinition(task_definition) IN
    IF r.fail THEN Err(DescribeTaskDefinitionReq(task_definition))
    ELSE Ok(ImageOfResponse(r, service_name))

---------------------------------------------------------------------------
(* get_images_of_services, lines 56-96 *)

\* mutant of PairOfService: a service without a name is kept, under an
\* empty name
PairOfServiceDefaultName(service) ==
    IF service.task_definition = None THEN None
    ELSE IF service.service_name = None
    THEN Some(<<service.task_definition[1], "">>)
    ELSE Some(<<service.task_definition[1], service.service_name[1]>>)

\* lines 73-78: the (task definition, service name) pair of a service
PairOfService(service) ==
    IF service.task_definition = None THEN None
    ELSE IF service.service_name = None THEN None
    ELSE Some(<<service.task_definition[1], service.service_name[1]>>)

\* lines 71-79
TaskDefinitionsOf(services) ==
    Flatten([i \in DOMAIN services |-> PairOfService(services[i])])

\* lines 80-82: one get_image_of_task_definition future per pair
Lookup(pair) == [task_definition |-> pair[1], service_name |-> pair[2],
                 out |-> Pending]

\* mutant of AllDone: the join returns with the first lookup that completes
AnyDone(lookups) == \E j \in DOMAIN lookups : lookups[j].out.kind # "Pending"

\* join_all, line 84: every lookup has completed
AllDone(lookups) == \A j \in DOMAIN lookups : lookups[j].out.kind # "Pending"

\* mutant of FirstErr: the last Err in input order
RECURSIVE LastErr(_, _)
LastErr(results, i) ==
    IF i > Len(results) THEN None
    ELSE IF LastErr(results, i + 1) # None THEN LastErr(results, i + 1)
    ELSE IF results[i].kind = "Err" THEN Some(results[i].err)
    ELSE None

\* lines 86-87: collect into Result<Vec<_>>: the first Err in input order
RECURSIVE FirstErr(_, _)
FirstErr(results, i) ==
    IF i > Len(results) THEN None
    ELSE IF results[i].kind = "Err" THEN Some(results[i].err)
    ELSE FirstErr(results, i + 1)

\* lines 89-92: the Some images, in input order
SomeImages(lookups) ==
    Flatten([j \in DOMAIN lookups |-> lookups[j].out.val])

---------------------------------------------------------------------------
(* get_images_of_a_cluster, lines 98-130 *)

\* lines 102-115: the future runs to its first ListServices request.
\* service_arns and lookups are those of the latest DescribeServices request
\* (they stay readable after their batch is over); completed lists the
\* lookups of the batch in the order their responses arrived; calls is the
\* history of the requests the future issued
NewFuture(cluster_name) ==
    [cluster_name |-> cluster_name,
     at |-> "list_services",
     next_token |-> None,
     page_next |-> None,
     service_arns |-> <<>>,
     lookups |-> <<>>,
     completed |-> <<>>,
     all_images |-> <<>>,
     out |-> Pending,
     calls |-> <<ListServicesReq(cluster_name, None)>>]

\* mutant of Fail: the failed request is issued once more before the error
\* is returned (an internal retry)
FailAfterRetry(f, e) ==
    [f EXCEPT !.at = "returned", !.out = Err(e), !.calls = Record(@, <<e>>)]

\* the ? operator: the future returns the error
Fail(f, e) == [f EXCEPT !.at = "returned", !.out = Err(e)]

\* mutant of AfterPage: the page's images replace the accumulator
AfterPageOverwrite(f, got_images) ==
    IF f.page_next = None
    THEN [f EXCEPT !.at = "returned", !.all_images = got_images,
                   !.out = Ok(<<f.cluster_name, got_images>>)]
    ELSE [f EXCEPT !.at = "list_services", !.all_images = got_images,
                   !.next_token = f.page_next,
                   !.calls = Record(@, <<ListServicesReq(f.cluster_name, f.page_next)>>)]

\* mutant of AfterPage: the images of the earlier pages are appended again
\* with each page (a page buffer that is never reset)
AfterPageCumulative(f, got_images) ==
    LET all == f.all_images \o f.all_images \o got_images IN
    IF f.page_next = None
    THEN [f EXCEPT !.at = "returned", !.all_images = all,
                   !.out = Ok(<<f.cluster_name, all>>)]
    ELSE [f EXCEPT !.at = "list_services", !.all_images = all,
                   !.next_token = f.page_next,
                   !.calls = Record(@, <<ListServicesReq(f.cluster_name, f.page_next)>>)]

\* mutant of AfterPage: the loop gives up after a few requests (an iteration
\* bound)
AfterPageCapped(f, got_images) ==
    LET all == f.all_images \o got_images IN
    IF f.page_next = None \/ Len(f.calls) >= 4
    THEN [f EXCEPT !.at = "returned", !.all_images = all,
                   !.out = Ok(<<f.cluster_name, all>>)]
    ELSE [f EXCEPT !.at = "list_services", !.all_images = all,
                   !.next_token = f.page_next,
                   !.calls = Record(@, <<ListServicesReq(f.cluster_name, f.page_next)>>)]

\* lines 120-129: append the page's images; stop on an absent cursor, else
\* request the next page with the cursor returned
AfterPage(f, got_images) ==
    LET all == f.all_images \o got_images IN
    IF f.page_next = None
    THEN [f EXCEPT !.at = "returned", !.all_images = all,
                   !.out = Ok(<<f.cluster_name, all>>)]
    ELSE [f EXCEPT !.at = "list_services", !.all_images = all,
                   !.next_token = f.page_next,
                   !.calls = Record(@, <<ListServicesReq(f.cluster_name, f.page_next)>>)]

\* mutant of OnListServices: only the first identifier of the page is
\* described
OnListServicesFirstOnly(f) ==
    LET r == ListServices(f.cluster_name, f.next_token)
        g == [f EXCEPT !.page_next = r.next_token] IN
    IF r.fail THEN Fail(f, ListServicesReq(f.cluster_name, f.next_token))
    ELSE IF r.service_arns # None /\ r.service_arns[1] # <<>>
    THEN [g EXCEPT !.at = "describe_services",
                   !.service_arns = <<r.service_arns[1][1]>>,
                   !.lookups = <<>>,
                   !.completed = <<>>,
                   !.calls = Record(@, <<DescribeServicesReq(f.cluster_name,
                                                        <<r.service_arns[1][1]>>)>>)]
    ELSE AfterPage(g, <<>>)

\* mutant of OnListServices: a page without identifiers ends the pagination
OnListServicesStopOnEmpty(f) ==
    LET r == ListServices(f.cluster_name, f.next_token)
        g == [f EXCEPT !.page_next = r.next_token] IN
    IF r.fail THEN Fail(f, ListServicesReq(f.cluster_name, f.next_token))
    ELSE IF r.service_arns # None /\ r.service_arns[1] # <<>>
    THEN [g EXCEPT !.at = "describe_services",
                   !.service_arns = r.service_arns[1],
                   !.lookups = <<>>,
                   !.completed = <<>>,
                   !.calls = Record(@, <<DescribeServicesReq(f.cluster_name,
                                                        r.service_arns[1])>>)]
    ELSE [g EXCEPT !.at = "returned",
                   !.out = Ok(<<f.cluster_name, f.all_images>>)]

\* lines 115-119: the ListServices response arrives
OnListServices(f) ==
    LET r == ListServices(f.cluster_name, f.next_token)
        g == [f EXCEPT !.page_next = r.next_token] IN
    IF r.fail THEN Fail(f, ListServicesReq(f.cluster_name, f.next_token))
    ELSE IF r.service_arns # None /\ r.service_arns[1] # <<>>
    THEN [g EXCEPT !.at = "describe_services",
                   !.service_arns = r.service_arns[1],
                   !.lookups = <<>>,
                   !.completed = <<>>,
                   !.calls = Record(@, <<DescribeServicesReq(f.cluster_name,
                                                        r.service_arns[1])>>)]
    ELSE AfterPage(g, <<>>)

\* mutant of OnDescribeServices: only the first lookup is started (the
\* lookups awaited one after the other in a loop)
OnDescribeServicesSequential(f) ==
    LET r == DescribeServices(f.cluster_name, f.service_arns) IN
    IF r.fail THEN Fail(f, DescribeServicesReq(f.cluster_name, f.service_arns))
    ELSE IF r.services = None THEN AfterPage(f, <<>>)
    ELSE LET tds == TaskDefinitionsOf(r.services[1]) IN
         IF tds = <<>> THEN AfterPage(f, <<>>)
         ELSE [f EXCEPT !.at = "describe_task_definition",
                        !.lookups = [j \in DOMAIN tds |-> Lookup(tds[j])],
                        !.calls = Record(@, <<DescribeTaskDefinitionReq(tds[1][1])>>)]

\* lines 68-84: the DescribeServices response arrives; join_all starts every
\* lookup (each issues its DescribeTaskDefinition request)
OnDescribeServices(f) ==
    LET r == DescribeServices(f.cluster_name, f.service_arns) IN
    IF r.fail THEN Fail(f, DescribeServicesReq(f.cluster_name, f.service_arns))
    ELSE IF r.services = None THEN AfterPage(f, <<>>)
    ELSE LET tds == TaskDefinitionsOf(r.services[1]) IN
         IF tds = <<>> THEN AfterPage(f, <<>>)
         ELSE [f EXCEPT !.at = "describe_task_definition",
                        !.lookups = [j \in DOMAIN tds |-> Lookup(tds[j])],
                        !.calls = Record(@, [j \in DOMAIN tds |->
                                   DescribeTaskDefinitionReq(tds[j][1])])]

\* mutant of OnDescribeTaskDefinition: the images of a batch are collected
\* in the order the lookups completed (a FuturesUnordered instead of join_all)
OnDescribeTaskDefinitionByCompletion(f, j) ==
    LET l == f.lookups[j]
        o == GetImageOfTaskDefinition(l.task_definition, l.service_name)
        ls == [f.lookups EXCEPT ![j].out = o]
        g == [f EXCEPT !.lookups = ls, !.completed = Append(@, j)] IN
    IF ~AllDone(ls) THEN g
    ELSE LET e == FirstErr([k \in DOMAIN ls |-> ls[k].out], 1) IN
         IF e # None THEN Fail(g, e[1])
         ELSE AfterPage(g, Flatten([k \in DOMAIN g.completed |->
                                       ls[g.completed[k]].out.val]))

\* mutant of OnDescribeTaskDefinition: the batch is over as soon as its last
\* lookup in input order has completed, with others still pending
OnDescribeTaskDefinitionEager(f, j) ==
    LET l == f.lookups[j]
        o == GetImageOfTaskDefinition(l.task_definition, l.service_name)
        ls == [f.lookups EXCEPT ![j].out = o]
        g == [f EXCEPT !.lookups = ls, !.completed = Append(@, j)] IN
    IF j # Len(ls) /\ ~AllDone(ls) THEN g
    ELSE LET e == FirstErr([k \in DOMAIN ls |-> ls[k].out], 1) IN
         IF e # None THEN Fail(g, e[1])
         ELSE AfterPage(g, SomeImages(ls))

\* lines 84-93: lookup j completes; once all have, the join returns
OnDescribeTaskDefinition(f, j) ==
    LET l == f.lookups[j]
        o == GetImageOfTaskDefinition(l.task_definition, l.service_name)
        ls == [f.lookups EXCEPT ![j].out = o]
        g == [f EXCEPT !.lookups = ls, !.completed = Append(@, j)] IN
    IF ~AllDone(ls) THEN g
    ELSE LET e == FirstErr([k \in DOMAIN ls |-> ls[k].out], 1) IN
         IF e # None THEN Fail(g, e[1])
         ELSE AfterPage(g, SomeImages(ls))

---------------------------------------------------------------------------
(* get_images_of_clusters, lines 154-182 *)

\* str::contains: pat occurs in s as a contiguous run of characters
Contains(s, pat) ==
    \E k \in 0..Len(s) :
        /\ k + Len(pat) <= Len(s)
        /\ SubSeq(s, k + 1, k + Len(pat)) = pat

\* mutant of Included: a filter string must equal the identifier
IncludedExact(cluster_arn, includes) ==
    \/ includes = <<>>
    \/ \E i \in DOMAIN includes : cluster_arn = includes[i]

\* lines 163-169: the filter closure
Included(cluster_arn, includes) ==
    \/ includes = <<>>
    \/ \E i \in DOMAIN includes : Contains(cluster_arn, includes[i])

\* lines 161-170
KeptClusters(cs, includes) ==
    Flatten([i \in DOMAIN cs |->
                IF Included(cs[i], includes) THEN <<cs[i]>> ELSE <<>>])

EmptyMap == [k \in {} |-> <<>>]

\* mutant of Insert: a cluster without images gets no entry
InsertNonEmpty(m, k, v) ==
    IF v = <<>> THEN m
    ELSE [x \in DOMAIN m \cup {k} |-> IF x = k THEN v ELSE m[x]]

\* HashMap::insert: a later value replaces an earlier one under the same key
Insert(m, k, v) ==
    [x \in DOMAIN m \cup {k} |-> IF x = k THEN v ELSE m[x]]

\* mutant of CollectClusters: a failed cluster is skipped, the others kept
RECURSIVE CollectClustersPartial(_, _, _)
CollectClustersPartial(results, i, m) ==
    IF i > Len(results) THEN Ok(m)
    ELSE IF results[i].kind = "Err" THEN CollectClustersPartial(results, i + 1, m)
    ELSE CollectClustersPartial(results, i + 1,
                                Insert(m, results[i].val[1], results[i].val[2]))

\* mutant of CollectClusters: of several errors the last in input order is
\* returned
RECURSIVE CollectClustersLastErr(_, _, _)
CollectClustersLastErr(results, i, m) ==
    IF i > Len(results) THEN Ok(m)
    ELSE IF results[i].kind = "Err"
    THEN IF CollectClustersLastErr(results, i + 1, m).kind = "Err"
         THEN CollectClustersLastErr(results, i + 1, m)
         ELSE Err(results[i].err)
    ELSE CollectClustersLastErr(results, i + 1,
                                Insert(m, results[i].val[1], results[i].val[2]))

\* lines 174-181: the first Err in input order, else the map of all tuples
RECURSIVE CollectClusters(_, _, _)
CollectClusters(results, i, m) ==
    IF i > Len(results) THEN Ok(m)
    ELSE IF results[i].kind = "Err" THEN Err(results[i].err)
    ELSE CollectClusters(results, i + 1,
                         Insert(m, results[i].val[1], results[i].val[2]))

AllReturned(fs) == \A i \in DOMAIN fs : fs[i].at = "returned"

\* mutant of Join: the join returns with the first future that fails, while
\* its siblings are still running (try_join_all instead of join_all)
JoinFailFast(fs) ==
    LET failed == {i \in DOMAIN fs : fs[i].out.kind = "Err"} IN
    /\ futures' = fs
    /\ IF failed # {}
       THEN /\ pc' = "done"
            /\ res' = Err(fs[CHOOSE i \in failed : \A k \in failed : i <= k].out.err)
       ELSE IF AllReturned(fs)
       THEN /\ pc' = "done"
            /\ res' = CollectClusters([i \in DOMAIN fs |-> fs[i].out], 1, EmptyMap)
       ELSE /\ pc' = "join_all"
            /\ res' = res

\* line 172 on: join_all returns once every future has; then the loop
Join(fs) ==
    /\ futures' = fs
    /\ IF AllReturned(fs)
       THEN /\ pc' = "done"
            /\ res' = CollectClusters([i \in DOMAIN fs |-> fs[i].out], 1, EmptyMap)
       ELSE /\ pc' = "join_all"
            /\ res' = res

\* the failed requests of a step, appended in order of occurrence
Failed(req, failed) ==
    failures' = IF failed THEN Append(failures, req) ELSE failures

---------------------------------------------------------------------------
(* Actions: one per response of the control plane *)

\* mutant of ExtendClusters: a page's identifiers replace the accumulator
ExtendClustersOverwrite(acc, cluster_arns) ==
    IF cluster_arns = None THEN acc ELSE cluster_arns[1]

\* lines 142-144: a page's identifiers are appended to the accumulator
ExtendClusters(acc, cluster_arns) ==
    IF cluster_arns = None THEN acc ELSE acc \o cluster_arns[1]

\* get_clusters, lines 132-152, and what follows it in lines 158-172
ListClustersResponse ==
    /\ pc = "get_clusters"
    /\ LET r == ListClusters(next_token)
           cs == ExtendClusters(clusters, r.cluster_arns) IN
       /\ Failed(ListClustersReq(next_token), r.fail)
       /\ IF r.fail
          THEN /\ pc' = "done"
               /\ res' = Err(ListClustersReq(next_token))
               /\ UNCHANGED <<next_token, clusters, futures, listed>>
          ELSE /\ clusters' = cs
               /\ IF r.next_token = None
                  THEN /\ Join([i \in DOMAIN KeptClusters(cs, cluster_includes) |->
                                NewFuture(KeptClusters(cs, cluster_includes)[i])])
                       /\ UNCHANGED <<next_token, listed>>
                  ELSE /\ next_token' = r.next_token
                       /\ listed' = Record(listed, <<next_token'>>)
                       /\ UNCHANGED <<pc, futures, res>>
    /\ UNCHANGED <<cp, cluster_includes>>

ListServicesResponse(i) ==
    /\ pc = "join_all"
    /\ futures[i].at = "list_services"
    /\ LET g == OnListServices(futures[i]) IN
       /\ Failed(g.out.err, g.out.kind = "Err")
       /\ Join([futures EXCEPT ![i] = g])
    /\ UNCHANGED <<cp, cluster_includes, next_token, clusters, listed>>

DescribeServicesResponse(i) ==
    /\ pc = "join_all"
    /\ futures[i].at = "describe_services"
    /\ LET g == OnDescribeServices(futures[i]) IN
       /\ Failed(g.out.err, g.out.kind = "Err")
       /\ Join([futures EXCEPT ![i] = g])
    /\ UNCHANGED <<cp, cluster_includes, next_token, clusters, listed>>

DescribeTaskDefinitionResponse(i, j) ==
    /\ pc = "join_all"
    /\ futures[i].at = "describe_task_definition"
    /\ j \in DOMAIN futures[i].lookups
    /\ futures[i].lookups[j].out.kind = "Pending"
    /\ LET l == futures[i].lookups[j]
           o == GetImageOfTaskDefinition(l.task_definition, l.service_name) IN
       /\ Failed(o.err, o.kind = "Err")
       /\ Join([futures EXCEPT ![i] = OnDescribeTaskDefinition(futures[i], j)])
    /\ UNCHANGED <<cp, cluster_includes, next_token, clusters, listed>>

Next ==
    \/ ListClustersResponse
    \/ \E i \in DOMAIN futures : ListServicesResponse(i)
    \/ \E i \in DOMAIN futures : DescribeServicesResponse(i)
    \/ \E i \in DOMAIN futures :
          \E j \in DOMAIN futures[i].lookups : DescribeTaskDefinitionResponse(i, j)

---------------------------------------------------------------------------
(* The control planes and arguments a run starts from *)

SeqsUpTo(S, n) == UNION {[1..k -> S] : k \in 0..n}
SeqsFromTo(S, m, n) == UNION {[1..k -> S] : k \in m..n}

ClusterAbc == <<"a", "b", "c">>
ClusterCa == <<"c", "a">>
ClusterNames == {ClusterAbc, ClusterCa}

\* filter strings: the empty string (in every identifier), "bc" (in "abc"
\* only), "ac" (letters of "abc", not contiguous) and an upper-case "B"
IncludeStrings == {<<>>, <<"b", "c">>, <<"a", "c">>, <<"B">>}

ServiceArns == {"s1", "s2", "s3"}
TaskDefinitionIds == {"t1", "t2"}

\* a cursor chain: every page but the last carries the token of the next
\* page; a failing call has no response, and nothing follows it
ClusterChain(body, failLast) ==
    [i \in DOMAIN body |->
        [fail |-> failLast /\ i = Len(body),
         cluster_arns |-> IF failLast /\ i = Len(body) THEN None ELSE body[i],
         next_token |-> IF i < Len(body) THEN Some(i + 1) ELSE None]]

ServiceChain(body, failLast) ==
    [i \in DOMAIN body |->
        [fail |-> failLast /\ i = Len(body),
         service_arns |-> IF failLast /\ i = Len(body) THEN None ELSE body[i],
         next_token |-> IF i < Len(body) THEN Some(i + 1) ELSE None]]

ClusterPageBodies ==
    {None, Some(<<>>), Some(<<ClusterAbc>>),
     Some(<<ClusterAbc, ClusterCa>>), Some(<<ClusterCa, ClusterCa>>)}

ClusterChains ==
    {ClusterChain(b, FALSE) : b \in SeqsFromTo(ClusterPageBodies, 1, MaxClusterPages)}
    \cup {ClusterChain(Append(b, None), TRUE) :
            b \in SeqsUpTo(ClusterPageBodies, MaxClusterPages - 1)}

ServicePageBodies ==
    {None, Some(<<>>), Some(<<"s1">>), Some(<<"s3">>), Some(<<"s1", "s2">>),
     Some(<<"s2", "s3">>), Some(<<"s2", "s1">>)}

ServiceChains ==
    {ServiceChain(b, FALSE) : b \in SeqsFromTo(ServicePageBodies, 1, MaxServicePages)}
    \cup {ServiceChain(Append(b, None), TRUE) :
            b \in SeqsUpTo(ServicePageBodies, MaxServicePages - 1)}

Service(name, td) == [service_name |-> name, task_definition |-> td]

\* what the control plane may hold for a service: nothing, or a record with
\* or without its name and with or without a task-definition reference
ServiceRecords(name) ==
    {None} \cup {Some(Service(n, t)) : n \in {None, Some(name)},
                                       t \in {None, Some("t1"), Some("t2")}}

Container(image) == [image |-> image]

TaskDefinitionResponse(arn, cds) ==
    [fail |-> FALSE,
     task_definition |-> Some([task_definition_arn |-> arn,
                               container_definitions |-> cds])]

NoTaskDefinition == [fail |-> FALSE, task_definition |-> None]
TaskDefinitionFailure == [fail |-> TRUE, task_definition |-> None]

ContainerLists ==
    {None} \cup {Some(cds) :
        cds \in SeqsUpTo({Container(i) : i \in {None, Some("img1"), Some("img2")}},
                         MaxContainers)}

TaskDefinitionResponses ==
    {NoTaskDefinition, TaskDefinitionFailure}
    \cup {TaskDefinitionResponse(arn, cds) :
            arn \in {None, Some("arn1")}, cds \in ContainerLists}

\* the plain control plane: two clusters on one page, one with a page of one
\* service that has no task definition, the other with a page of no services
PlainServices ==
    [a \in ServiceArns |->
        CASE a = "s1" -> Some(Service(Some("n1"), Some("t1")))
          [] a = "s2" -> Some(Service(Some("n2"), Some("t2")))
          [] OTHER -> Some(Service(Some("n3"), None))]

PlainTaskDefinitions ==
    [t \in TaskDefinitionIds |->
        IF t = "t1"
        THEN TaskDefinitionResponse(Some("arn1"), Some(<<Container(Some("img1"))>>))
        ELSE TaskDefinitionResponse(Some("arn2"),
                 Some(<<Container(Some("img1")), Container(Some("img2"))>>))]

Plain ==
    [clusterPages |-> ClusterChain(<<Some(<<ClusterAbc, ClusterCa>>)>>, FALSE),
     servicePages |-> [c \in ClusterNames |->
         IF c = ClusterAbc THEN ServiceChain(<<Some(<<"s3">>)>>, FALSE)
         ELSE ServiceChain(<<None>>, FALSE)],
     services |-> PlainServices,
     describeFail |-> {},
     describeNone |-> {},
     taskDefinitions |-> PlainTaskDefinitions]

Scenario(plane, includes) == [cp |-> plane, includes |-> includes]

\* the clusters the filter lists are tried on: two pages, a cluster listed
\* more than once
FilteredChain ==
    ClusterChain(<<Some(<<ClusterAbc, ClusterCa>>), Some(<<ClusterCa, ClusterCa>>)>>,
                 FALSE)

\* listing and filtering: every cursor chain of clusters with no filter and
\* with every single filter, and every filter list over FilteredChain
ListingScenarios ==
    {Scenario([Plain EXCEPT !.clusterPages = ch], inc) :
        ch \in ClusterChains, inc \in SeqsUpTo(IncludeStrings, 1)}
    \cup {Scenario([Plain EXCEPT !.clusterPages = FilteredChain], inc) :
            inc \in SeqsUpTo(IncludeStrings, MaxIncludes)}

OneCluster == ClusterChain(<<Some(<<ClusterAbc>>)>>, FALSE)

\* one cluster: every cursor chain of service pages
PagingScenarios ==
    {Scenario([Plain EXCEPT !.clusterPages = OneCluster,
                            !.servicePages[ClusterAbc] = ch], <<>>) :
        ch \in ServiceChains}

\* one page of two services: what DescribeServices and
\* DescribeTaskDefinition may answer
BatchScenarios ==
    {Scenario([Plain EXCEPT
                 !.clusterPages = OneCluster,
                 !.servicePages[ClusterAbc] =
                     ServiceChain(<<Some(<<"s1", "s2">>)>>, FALSE),
                 !.services = [a \in ServiceArns |->
                                 IF a = "s1" THEN s1 ELSE IF a = "s2" THEN s2
                                 ELSE None],
                 !.describeFail = IF d = "fail" THEN
                     {DescribeServicesReq(ClusterAbc, <<"s1", "s2">>)} ELSE {},
                 !.describeNone = IF d = "none" THEN
                     {DescribeServicesReq(ClusterAbc, <<"s1", "s2">>)} ELSE {},
                 !.taskDefinitions["t1"] = t1], <<>>) :
        s1 \in ServiceRecords("n1"),
        s2 \in ServiceRecords("n2"),
        d \in {"ok", "fail", "none"},
        t1 \in {NoTaskDefinition, TaskDefinitionFailure,
                PlainTaskDefinitions["t1"]}}

\* one service: every DescribeTaskDefinition response
ResolveScenarios ==
    {Scenario([Plain EXCEPT
                 !.clusterPages = OneCluster,
                 !.servicePages[ClusterAbc] = ServiceChain(<<Some(<<"s1">>)>>, FALSE),
                 !.taskDefinitions["t1"] = r], <<>>) :
        r \in TaskDefinitionResponses}

\* two clusters resolved concurrently, with up to MaxFaults failing requests
Busy ==
    [Plain EXCEPT
        !.servicePages[ClusterAbc] =
            ServiceChain(<<Some(<<"s1", "s2">>), Some(<<"s3", "s1">>)>>, FALSE),
        !.servicePages[ClusterCa] = ServiceChain(<<Some(<<"s2", "s1">>)>>, FALSE)]

FaultSites ==
    {ListClustersReq(None),
     ListServicesReq(ClusterAbc, None), ListServicesReq(ClusterAbc, Some(2)),
     ListServicesReq(ClusterCa, None),
     DescribeServicesReq(ClusterAbc, <<"s1", "s2">>),
     DescribeServicesReq(ClusterAbc, <<"s3", "s1">>),
     DescribeServicesReq(ClusterCa, <<"s2", "s1">>),
     DescribeTaskDefinitionReq("t1"), DescribeTaskDefinitionReq("t2")}

\* the control plane that fails the requests of `faults` and no other
WithFaults(plane, faults) ==
    [plane EXCEPT
        !.clusterPages = [i \in DOMAIN @ |->
            IF ListClustersReq(IF i = 1 THEN None ELSE Some(i)) \in faults
            THEN [fail |-> TRUE, cluster_arns |-> None, next_token |-> None]
            ELSE @[i]],
        !.servicePages = [c \in DOMAIN @ |-> [i \in DOMAIN @[c] |->
            IF ListServicesReq(c, IF i = 1 THEN None ELSE Some(i)) \in faults
            THEN [fail |-> TRUE, service_arns |-> None, next_token |-> None]
            ELSE @[c][i]]],
        !.describeFail = {r \in faults : r[1] = "DescribeServices"},
        !.taskDefinitions = [t \in DOMAIN @ |->
            IF DescribeTaskDefinitionReq(t) \in faults
            THEN TaskDefinitionFailure ELSE @[t]]]

FaultScenarios ==
    {Scenario(WithFaults(Busy, faults), <<>>) :
        faults \in {fs \in SUBSET FaultSites : Cardinality(fs) <= MaxFaults}}

Scenarios ==
    ListingScenarios \cup PagingScenarios \cup BatchScenarios
    \cup ResolveScenarios \cup FaultScenarios

\* line 158: get_images_of_clusters has called get_clusters, which has issued
\* its first ListClusters request (lines 133-141)
Init ==
    /\ \E sc \in Scenarios : cp = sc.cp /\ cluster_includes = sc.includes
    /\ pc = "get_clusters"
    /\ next_token = None
    /\ clusters = <<>>
    /\ futures = <<>>
    /\ res = Pending
    /\ listed = <<None>>
    /\ failures = <<>>

Spec == Init /\ [][Next]_vars

---------------------------------------------------------------------------
(* Control planes whose cursor chains do not end *)

\* a chain of pages whose last page returns the cursor of the first: every
\* page succeeds and returns a cursor
CyclicClusterChain(body) ==
    [i \in DOMAIN body |->
        [fail |-> FALSE,
         cluster_arns |-> body[i],
         next_token |-> Some(IF i < Len(body) THEN i + 1 ELSE 1)]]

CyclicServiceChain(body) ==
    [i \in DOMAIN body |->
        [fail |-> FALSE,
         service_arns |-> body[i],
         next_token |-> Some(IF i < Len(body) THEN i + 1 ELSE 1)]]

\* a filter string that is in "ca" and not in "abc"
IncludeCa == <<"c", "a">>

\* the pages of these chains add nothing to an accumulator: no identifiers,
\* or a service without a task definition
LoopScenarios ==
    {Scenario([Plain EXCEPT !.clusterPages = CyclicClusterChain(b)], <<>>) :
        b \in SeqsFromTo({None, Some(<<>>)}, 1, MaxClusterPages)}
    \cup {Scenario([Plain EXCEPT !.servicePages[ClusterAbc] = CyclicServiceChain(b)],
                   inc) :
            b \in SeqsFromTo({None, Some(<<>>), Some(<<"s3">>)}, 1, MaxServicePages),
            inc \in {<<>>, <<IncludeCa>>}}
    \cup {Scenario([Busy EXCEPT !.servicePages[ClusterCa] = CyclicServiceChain(b)],
                   <<>>) :
            b \in SeqsFromTo({None, Some(<<"s3">>)}, 1, MaxServicePages)}

\* the runs of discover over chains that end (every chain of clusters,
\* chains of services, two clusters with at most one failing request)
\* and over chains that do not
LiveScenarios ==
    LoopScenarios
    \cup {Scenario([Plain EXCEPT !.clusterPages = OneCluster,
                                 !.servicePages[ClusterAbc] = ch], <<>>) :
            ch \in {ServiceChain(b, FALSE) :
                      b \in SeqsFromTo({None, Some(<<"s1", "s2">>), Some(<<"s3">>)},
                                       1, MaxServicePages)}
                   \cup {ServiceChain(Append(b, None), TRUE) :
                           b \in SeqsUpTo({None, Some(<<"s1", "s2">>)},
                                          MaxServicePages - 1)}}
    \cup {Scenario(WithFaults(Busy, faults), <<>>) :
            faults \in {{}} \cup {{r} : r \in FaultSites}}
    \cup {Scenario([Plain EXCEPT !.clusterPages = ch], <<>>) : ch \in ClusterChains}

InitLive ==
    /\ \E sc \in LiveScenarios : cp = sc.cp /\ cluster_includes = sc.includes
    /\ pc = "get_clusters"
    /\ next_token = None
    /\ clusters = <<>>
    /\ futures = <<>>
    /\ res = Pending
    /\ listed = <<None>>
    /\ failures = <<>>

\* every remote call returns: while a response is outstanding, one arrives
SpecLive == InitLive /\ [][Next]_vars /\ WF_vars(Next)

---------------------------------------------------------------------------
(* Properties *)

\* get_clusters has returned Ok: the fan-out has happened
ListerReturned ==
    \/ pc = "join_all"
    \/ pc = "done" /\ ~(res.kind = "Err" /\ res.err[1] = "ListClusters")

\* C1: fail-fast and non-partial. Once any remote call of the run has
\* failed, discover never returns a mapping: when it returns, it returns an
\* error and no mapping at all.
C1_FailFast ==
    failures # <<>> =>
        /\ res.kind # "Ok"
        /\ pc = "done" => res.kind = "Err" /\ res.val = <<>>

\* C1 witness: discover has returned an error although a sibling cluster was
\* paginated to the end and resolved images, which are not returned.
C1_Witness ==
    /\ pc = "done" /\ res.kind = "Err"
    /\ \E i \in DOMAIN futures :
          futures[i].out.kind = "Ok" /\ futures[i].all_images # <<>>

\* p = s[i+1..j] for some cut points i <= j: p is a substring of s
IsSubstring(p, s) ==
    \E i \in 0..Len(s) : \E j \in i..Len(s) :
        p = [k \in 1..(j - i) |-> s[i + k]]

\* the filter policy as the specification words it
Selected(c) ==
    \/ Len(cluster_includes) = 0
    \/ \E f \in Range(cluster_includes) : IsSubstring(f, c)

\* the positions of the listed clusters the policy selects
SelectedPositions == {k \in DOMAIN clusters : Selected(clusters[k])}

\* C2: filter semantics. Once the clusters are listed, the clusters
\* paginated are exactly the listed ones that the filter list selects (all
\* of them when the list is empty, else those with some filter string as a
\* substring), one pagination per listed occurrence and in listing order;
\* no other cluster is paginated or is a key of the result.
C2_FilterSemantics ==
    ListerReturned =>
        /\ Len(futures) = Cardinality(SelectedPositions)
        /\ \A i \in DOMAIN futures :
              \E k \in SelectedPositions :
                 /\ futures[i].cluster_name = clusters[k]
                 /\ Cardinality({m \in SelectedPositions : m < k}) = i - 1
        /\ res.kind = "Ok" => \A c \in DOMAIN res.val : Selected(c)
        /\ cluster_includes = <<>> => Len(futures) = Len(clusters)

\* C2 witness: discover has returned a mapping under a non-empty filter list
\* that kept one listed cluster and dropped another.
C2_Witness ==
    /\ pc = "done" /\ res.kind = "Ok"
    /\ cluster_includes # <<>>
    /\ DOMAIN res.val # {}
    /\ \E k \in DOMAIN clusters : clusters[k] \notin DOMAIN res.val

\* C3: on success every listed cluster that passes the filter is a key of
\* the mapping, and a cluster for which no Image was resolved is a key whose
\* value is the empty list.
C3_EveryKeptClusterIsKey ==
    res.kind = "Ok" =>
        /\ \A k \in DOMAIN clusters :
              Selected(clusters[k]) => clusters[k] \in DOMAIN res.val
        /\ \A i \in DOMAIN futures :
              futures[i].all_images = <<>> =>
                  /\ futures[i].cluster_name \in DOMAIN res.val
                  /\ (\A m \in DOMAIN futures :
                         futures[m].cluster_name = futures[i].cluster_name
                         => futures[m].all_images = <<>>)
                     => res.val[futures[i].cluster_name] = <<>>

\* C3 witness: a mapping returned under a non-empty filter list with two
\* keys of empty value, one of a cluster whose only page was empty and one of
\* a cluster whose services were all dropped for missing data.
C3_Witness ==
    /\ pc = "done" /\ res.kind = "Ok" /\ cluster_includes # <<>>
    /\ \E i, m \in DOMAIN futures :
          /\ res.val[futures[i].cluster_name] = <<>>
          /\ res.val[futures[m].cluster_name] = <<>>
          /\ Len(futures[i].calls) = 1
          /\ \E n \in DOMAIN futures[m].calls :
                futures[m].calls[n][1] = "DescribeServices"

\* the cluster identifiers of pages 1..n, page by page
RECURSIVE IdentifiersUpTo(_)
IdentifiersUpTo(n) ==
    IF n = 0 THEN <<>>
    ELSE IdentifiersUpTo(n - 1)
         \o (IF cp.clusterPages[n].cluster_arns = None THEN <<>>
             ELSE cp.clusterPages[n].cluster_arns[1])

\* the cursor of the request for page n of a chain
CursorFor(pages, n) == IF n = 1 THEN None ELSE pages[n - 1].next_token

\* C4: Cluster Lister pagination. The requests issued so far are those for
\* the first pages of the chain, each once and in chain order, the first
\* with no cursor and each later one with the cursor the previous response
\* returned; when get_clusters returns, it has requested every page up to the
\* first one with an absent cursor, no other, and returns the concatenation
\* of the pages' identifiers.
C4_ListerPagination ==
    /\ Len(listed) <= Len(cp.clusterPages)
    /\ \A n \in DOMAIN listed : listed[n] = CursorFor(cp.clusterPages, n)
    /\ pc = "get_clusters" => /\ next_token = listed[Len(listed)]
                              /\ clusters = IdentifiersUpTo(Len(listed) - 1)
    /\ ListerReturned =>
          /\ cp.clusterPages[Len(listed)].next_token = None
          /\ \A n \in 1..(Len(listed) - 1) : cp.clusterPages[n].next_token # None
          /\ clusters = IdentifiersUpTo(Len(listed))

\* C4 witness: get_clusters has returned identifiers from a chain of more
\* than one page, one of which had no identifier list.
C4_Witness ==
    /\ ListerReturned
    /\ Len(listed) >= 2
    /\ clusters # <<>>
    /\ \E n \in DOMAIN listed : cp.clusterPages[n].cluster_arns = None

---------------------------------------------------------------------------
(* What the control plane holds for a cluster, page by page *)

\* the service entries a page's DescribeServices call returns
EntriesOfPage(c, n) ==
    LET arns == cp.servicePages[c][n].service_arns IN
    IF arns = None \/ arns = Some(<<>>) THEN <<>>
    ELSE IF DescribeServicesReq(c, arns[1]) \in cp.describeNone THEN <<>>
    ELSE DescribedServices(arns[1])

\* the entries that carry both a task-definition reference and a name
Complete(entries) ==
    SelectSeq(entries, LAMBDA e : e.task_definition # None /\ e.service_name # None)

\* the Image a complete entry resolves to, if any
ResolvedOf(e) ==
    ImageOfResponse(cp.taskDefinitions[e.task_definition[1]], e.service_name[1])

\* the Images of a page: those of its complete entries, in response order
ImagesOfPage(c, n) ==
    LET es == Complete(EntriesOfPage(c, n)) IN
    Flatten([k \in DOMAIN es |-> ResolvedOf(es[k])])

RECURSIVE ImagesUpTo(_, _)
ImagesUpTo(c, n) ==
    IF n = 0 THEN <<>> ELSE ImagesUpTo(c, n - 1) \o ImagesOfPage(c, n)

RECURSIVE EntriesUpTo(_, _)
EntriesUpTo(c, n) ==
    IF n = 0 THEN <<>> ELSE EntriesUpTo(c, n - 1) \o EntriesOfPage(c, n)

\* the requests of one operation among the calls of a future, in order
CallsOf(f, op) == SelectSeq(f.calls, LAMBDA r : r[1] = op)

\* C5: Cluster Paginator accumulation. A cluster's ListServices requests are
\* those for the first pages of its chain, each once and in cursor order
\* starting from an absent cursor; when the pagination returns Ok (no call
\* of it failed) it has requested every page up to the first one with an
\* absent cursor, and it returns the identifier it was given together with
\* the Images resolved from the services of all these pages.
C5_PaginatorAccumulation ==
    \A i \in DOMAIN futures :
        LET f == futures[i]
            pages == cp.servicePages[f.cluster_name]
            ls == CallsOf(f, "ListServices") IN
        /\ Len(ls) <= Len(pages)
        /\ \A n \in DOMAIN ls :
              ls[n] = ListServicesReq(f.cluster_name, CursorFor(pages, n))
        /\ f.out.kind = "Ok" =>
              /\ pages[Len(ls)].next_token = None
              /\ \A n \in 1..(Len(ls) - 1) : pages[n].next_token # None
              /\ f.out.val = <<f.cluster_name, ImagesUpTo(f.cluster_name, Len(ls))>>

\* C5 witness: a pagination has returned Images gathered from two pages,
\* each of which contributed some.
C5_Witness ==
    \E i \in DOMAIN futures :
        /\ futures[i].out.kind = "Ok"
        /\ Len(CallsOf(futures[i], "ListServices")) = 2
        /\ ImagesOfPage(futures[i].cluster_name, 1) # <<>>
        /\ ImagesOfPage(futures[i].cluster_name, 2) # <<>>
        /\ futures[i].out.val[2] # <<>>

\* the lookups that have completed, as <<cluster future, lookup>> positions
CompletedLookups ==
    {ij \in UNION {{<<i, j>> : j \in DOMAIN futures[i].lookups} : i \in DOMAIN futures} :
        futures[ij[1]].lookups[ij[2]].out.kind # "Pending"}

LookupAt(ij) == futures[ij[1]].lookups[ij[2]]

\* a successful DescribeTaskDefinition response from which no image can be
\* read: no body, no ARN, no container list, an empty one, or no image on
\* the last container
Imageless(r) ==
    \/ r.task_definition = None
    \/ r.task_definition[1].task_definition_arn = None
    \/ r.task_definition[1].container_definitions = None
    \/ Len(r.task_definition[1].container_definitions[1]) = 0
    \/ LET cds == r.task_definition[1].container_definitions[1] IN
       cds[Len(cds)].image = None

\* C6: Task-Definition Resolver, absent cases. A lookup whose
\* DescribeTaskDefinition call succeeded with no body, no ARN, an absent or
\* empty container list, or no image on the last container (whatever the
\* earlier containers carry) has returned Ok(None).
C6_ResolverAbsent ==
    \A ij \in CompletedLookups :
        LET r == cp.taskDefinitions[LookupAt(ij).task_definition] IN
        (~r.fail /\ Imageless(r)) => LookupAt(ij).out = Ok(None)

\* C6 witness: a lookup has completed on a task definition whose first
\* container carries an image and whose last does not.
C6_Witness ==
    \E ij \in CompletedLookups :
        LET r == cp.taskDefinitions[LookupAt(ij).task_definition] IN
        /\ ~r.fail /\ r.task_definition # None
        /\ r.task_definition[1].task_definition_arn # None
        /\ r.task_definition[1].container_definitions # None
        /\ LET cds == r.task_definition[1].container_definitions[1] IN
           Len(cds) = 2 /\ cds[1].image # None /\ cds[2].image = None

\* C7: Task-Definition Resolver, present case. A lookup whose response
\* carries a body with an ARN and at least one container, the last with an
\* image, has returned Some(Image) with that image, the ARN of the response
\* and the service name it was given.
C7_ResolverPresent ==
    \A ij \in CompletedLookups :
        LET l == LookupAt(ij)
            r == cp.taskDefinitions[l.task_definition] IN
        (~r.fail /\ ~Imageless(r)) =>
            LET td == r.task_definition[1]
                cds == td.container_definitions[1] IN
            /\ l.out.kind = "Ok"
            /\ Len(l.out.val) = 1
            /\ l.out.val[1].image_name = cds[Len(cds)].image[1]
            /\ l.out.val[1].task_definition_name = td.task_definition_arn[1]
            /\ l.out.val[1].service_name = l.service_name

\* C7 witness: a lookup has returned an Image from a task definition of two
\* containers with different images, under an ARN that differs from the
\* identifier queried.
C7_Witness ==
    \E ij \in CompletedLookups :
        LET l == LookupAt(ij)
            r == cp.taskDefinitions[l.task_definition] IN
        /\ ~r.fail /\ ~Imageless(r)
        /\ l.out.val # None
        /\ r.task_definition[1].task_definition_arn[1] # l.task_definition
        /\ LET cds == r.task_definition[1].container_definitions[1] IN
           Len(cds) = 2 /\ cds[1].image # cds[2].image /\ cds[1].image # None

---------------------------------------------------------------------------

\* how many elements of a sequence satisfy a test
Count(seq, Test(_)) == Cardinality({k \in DOMAIN seq : Test(seq[k])})

ServiceNames == {"n1", "n2", "n3"}

\* C8 as claimed: no cluster's image list, accumulated or returned, ever
\* holds two Images for the same service, whatever the control plane returns.
C8_NoDuplicateService ==
    \A i \in DOMAIN futures :
        \A a, b \in DOMAIN futures[i].all_images :
            a # b => futures[i].all_images[a].service_name
                     # futures[i].all_images[b].service_name

\* C8 as amended: each service entry a DescribeServices response returns is
\* resolved exactly once. A pagination that returned Ok has issued one
\* DescribeTaskDefinition request per returned entry carrying both fields,
\* and for each service name its list holds no more Images than the control
\* plane returned entries of that name: two Images for one service occur only
\* when the control plane returned that service more than once.
C8_OncePerReturnedEntry ==
    \A i \in DOMAIN futures :
        LET f == futures[i]
            es == Complete(EntriesUpTo(f.cluster_name,
                                       Len(CallsOf(f, "ListServices")))) IN
        f.out.kind = "Ok" =>
            /\ Len(CallsOf(f, "DescribeTaskDefinition")) = Len(es)
            /\ Len(f.all_images) <= Len(es)
            /\ \A n \in ServiceNames :
                  Count(f.all_images, LAMBDA im : im.service_name = n)
                  <= Count(es, LAMBDA e : e.service_name = Some(n))

\* C8 witness: a pagination has returned two Images of the same service,
\* which the control plane listed twice.
C8_Witness ==
    \E i \in DOMAIN futures :
        /\ futures[i].out.kind = "Ok"
        /\ \E a, b \in DOMAIN futures[i].all_images :
              a # b /\ futures[i].all_images[a] = futures[i].all_images[b]

\* the Image is what the entry e of cluster c's control plane resolves to
ResolvesTo(e, im) ==
    /\ e.service_name = Some(im.service_name)
    /\ e.task_definition # None
    /\ LET r == cp.taskDefinitions[e.task_definition[1]] IN
       /\ ~r.fail
       /\ ~Imageless(r)
       /\ r.task_definition[1].task_definition_arn = Some(im.task_definition_name)
       /\ LET cds == r.task_definition[1].container_definitions[1] IN
          cds[Len(cds)].image = Some(im.image_name)

\* C9: every Image of a returned mapping, under key c, is the Image of a
\* service that a DescribeServices call for c returned with a name and a
\* task-definition reference, whose task definition has an ARN and an image
\* on its last container; the Image carries that name. Missing data never
\* makes an error: discover fails only if a remote call failed.
C9_ImagesHaveServices ==
    /\ res.kind = "Ok" =>
          \A c \in DOMAIN res.val : \A k \in DOMAIN res.val[c] :
              \E n \in DOMAIN cp.servicePages[c] :
                  \E e \in Range(EntriesOfPage(c, n)) : ResolvesTo(e, res.val[c][k])
    /\ res.kind = "Err" => failures # <<>>
    /\ \A i \in DOMAIN futures : futures[i].out.kind = "Err" => failures # <<>>

\* C9 witness: discover has returned a mapping with an Image although the
\* same batch held a service that lacked a name or a task definition.
C9_Witness ==
    /\ pc = "done" /\ res.kind = "Ok"
    /\ \E i \in DOMAIN futures :
          /\ res.val[futures[i].cluster_name] # <<>>
          /\ Len(futures[i].lookups) = 1
          /\ Len(CallsOf(futures[i], "DescribeServices")) = 1
          /\ Len(EntriesOfPage(futures[i].cluster_name, 1)) = 2

\* C10 as claimed: the error discover returns is the failure that occurred
\* first in the run.
C10_EarliestFailure ==
    res.kind = "Err" => res.err = failures[1]

\* the first position of a sequence of Results that holds an Err
FirstErrAt(results) ==
    CHOOSE k \in DOMAIN results :
        /\ results[k].kind = "Err"
        /\ \A m \in 1..(k - 1) : results[m].kind # "Err"

\* C10 as amended: the error discover returns is a failure that occurred in
\* the run, chosen by position and not by time: the failure of get_clusters,
\* else that of the first failed cluster in listing order; and a cluster whose
\* batch failed returns the failure of the first failed lookup in the order
\* of the DescribeServices response.
C10_FirstFailureInOrder ==
    /\ res.kind = "Err" =>
          /\ \E k \in DOMAIN failures : failures[k] = res.err
          /\ futures = <<>> => res.err = failures[1]
          /\ futures # <<>> =>
                /\ \E i \in DOMAIN futures : futures[i].out.kind = "Err"
                /\ res.err = futures[FirstErrAt([i \in DOMAIN futures |->
                                                 futures[i].out])].out.err
    /\ \A i \in DOMAIN futures :
          (futures[i].out.kind = "Err"
           /\ futures[i].out.err[1] = "DescribeTaskDefinition") =>
              LET outs == [j \in DOMAIN futures[i].lookups |->
                             futures[i].lookups[j].out] IN
              /\ \E j \in DOMAIN outs : outs[j].kind = "Err"
              /\ futures[i].out.err = outs[FirstErrAt(outs)].err

\* C10 witness: discover has returned an error that is not the failure that
\* occurred first.
C10_Witness ==
    /\ pc = "done" /\ res.kind = "Err"
    /\ Len(failures) >= 2
    /\ res.err # failures[1]

---------------------------------------------------------------------------
(* The order of a batch's Images *)

\* the last n elements of a sequence (none when it has fewer)
LastN(seq, n) ==
    IF n > Len(seq) THEN <<>> ELSE SubSeq(seq, Len(seq) - n + 1, Len(seq))

\* the latest batch of a future is over and every lookup of it returned Ok
BatchOver(f) ==
    /\ f.lookups # <<>>
    /\ \A j \in DOMAIN f.lookups : f.lookups[j].out.kind = "Ok"

\* the Images of the latest batch in the order of the services in the
\* DescribeServices response, as the control plane holds them
BatchImages(f) ==
    LET es == Complete(DescribedServices(f.service_arns)) IN
    Flatten([k \in DOMAIN es |-> ResolvedOf(es[k])])

\* the Images of the latest batch in the order the lookups completed
CompletionImages(f) ==
    Flatten([k \in DOMAIN f.completed |-> f.lookups[f.completed[k]].out.val])

\* C11 as stated: the Images of a batch stand in the accumulator in the order
\* in which the batch's lookups completed.
C11_CompletionOrder ==
    \A i \in DOMAIN futures :
        LET f == futures[i] IN
        BatchOver(f) =>
            LastN(f.all_images, Len(CompletionImages(f))) = CompletionImages(f)

\* C11: the Images of a batch stand in the accumulator in the order of the
\* services in the DescribeServices response (the input order of join_all),
\* whatever the order in which the batch's lookups completed.
C11_ResponseOrder ==
    \A i \in DOMAIN futures :
        LET f == futures[i] IN
        BatchOver(f) =>
            /\ Len(BatchImages(f)) <= Len(f.all_images)
            /\ LastN(f.all_images, Len(BatchImages(f))) = BatchImages(f)

\* a batch of two lookups with different Images, the second of which
\* completed first
C11_Witness ==
    \E i \in DOMAIN futures :
        LET f == futures[i] IN
        /\ BatchOver(f)
        /\ f.completed = <<2, 1>>
        /\ Len(BatchImages(f)) = 2
        /\ BatchImages(f)[1] # BatchImages(f)[2]
        /\ f.at = "returned"

---------------------------------------------------------------------------
(* The outcome a control plane and a filter list determine *)

\* the error the resolution of the page a cursor names ends with, if any:
\* that of its ListServices request, else of its DescribeServices request,
\* else of the first complete entry in response order whose task definition
\* cannot be described
ErrOfPage(c, token) ==
    LET n == PageOf(token)
        p == cp.servicePages[c][n]
        es == Complete(EntriesOfPage(c, n))
        failing == SelectSeq(es,
                      LAMBDA e : cp.taskDefinitions[e.task_definition[1]].fail) IN
    IF p.fail THEN Some(ListServicesReq(c, token))
    ELSE IF p.service_arns = None \/ p.service_arns = Some(<<>>) THEN None
    ELSE IF DescribeServicesReq(c, p.service_arns[1]) \in cp.describeFail
    THEN Some(DescribeServicesReq(c, p.service_arns[1]))
    ELSE IF failing # <<>>
    THEN Some(DescribeTaskDefinitionReq(failing[1].task_definition[1]))
    ELSE None

\* the outcome of a cluster, following its cursor chain from a cursor on
RECURSIVE OutcomeFrom(_, _, _)
OutcomeFrom(c, token, acc) ==
    LET n == PageOf(token)
        e == ErrOfPage(c, token)
        all == acc \o ImagesOfPage(c, n) IN
    IF e # None THEN Err(e[1])
    ELSE IF cp.servicePages[c][n].next_token = None THEN Ok(<<c, all>>)
    ELSE OutcomeFrom(c, cp.servicePages[c][n].next_token, all)

\* the outcome of the cluster listing, following its cursor chain
RECURSIVE ListedFrom(_, _)
ListedFrom(token, acc) ==
    LET p == cp.clusterPages[PageOf(token)]
        cs == acc \o (IF p.cluster_arns = None THEN <<>> ELSE p.cluster_arns[1]) IN
    IF p.fail THEN Err(ListClustersReq(token))
    ELSE IF p.next_token = None THEN Ok(cs)
    ELSE ListedFrom(p.next_token, cs)

\* the outcome of discover: the listing's error; else the error of the first
\* selected cluster in listing order that has one; else the mapping from
\* every selected cluster to its Images
ExpectedOutcome ==
    LET l == ListedFrom(None, <<>>) IN
    IF l.kind = "Err" THEN l
    ELSE LET kept == SelectSeq(l.val, Selected)
             outs == [k \in DOMAIN kept |-> OutcomeFrom(kept[k], None, <<>>)]
             bad == {k \in DOMAIN kept : outs[k].kind = "Err"} IN
         IF bad # {} THEN outs[CHOOSE k \in bad : \A m \in bad : k <= m]
         ELSE Ok([c \in Range(kept) |-> OutcomeFrom(c, None, <<>>).val[2]])

\* some batch of the run completed its lookups out of input order
OutOfOrder ==
    \E i \in DOMAIN futures : \E k \in 1..(Len(futures[i].completed) - 1) :
        futures[i].completed[k] > futures[i].completed[k + 1]

\* C12: idempotence of discover. Whatever the interleaving of the concurrent
\* lookups, a run that has returned has failed exactly if the control plane
\* and the filters determine a failure, and otherwise has returned the key
\* set they determine and, per cluster, a collection set-equal to the Images
\* they determine; the control plane and the filters never change, so any two
\* runs over them both fail or both succeed with these keys and collections.
C12_Idempotence ==
    pc = "done" =>
        /\ res.kind = ExpectedOutcome.kind
        /\ res.kind = "Ok" =>
              /\ DOMAIN res.val = DOMAIN ExpectedOutcome.val
              /\ \A c \in DOMAIN res.val :
                    Range(res.val[c]) = Range(ExpectedOutcome.val[c])

\* a run has returned a cluster with two different Images after a batch of
\* its lookups completed out of input order
C12_Witness ==
    /\ pc = "done"
    /\ res.kind = "Ok"
    /\ OutOfOrder
    /\ \E c \in DOMAIN res.val : Cardinality(Range(res.val[c])) >= 2

---------------------------------------------------------------------------
(* The joins *)

\* the future ended of its own accord: with Ok after the page with an absent
\* cursor, or with the error of a request it issued itself
RanToCompletion(f) ==
    /\ f.at = "returned"
    /\ f.out.kind = "Ok" =>
          cp.servicePages[f.cluster_name][PageOf(f.next_token)].next_token = None
    /\ f.out.kind = "Err" =>
          /\ \E n \in DOMAIN f.calls : f.calls[n] = f.out.err
          /\ f.out.err[1] = "DescribeTaskDefinition" =>
                \E j \in DOMAIN f.lookups : f.lookups[j].out = f.out

\* C13: all-or-nothing join. discover has no result, not even an error,
\* while a cluster pagination is unfinished, and a cluster pagination leaves
\* a batch (for the next page or to return, not even with an error) only
\* when every lookup of the batch has completed; a failure cancels no
\* sibling: when discover returns, with an error or not, every pagination
\* has ended of its own accord, a successful one having requested all its
\* pages, and the failed run keeps none of their results.
C13_AllOrNothing ==
    /\ res.kind # "Pending" <=> pc = "done"
    /\ pc = "done" /\ futures # <<>> =>
          \A i \in DOMAIN futures : RanToCompletion(futures[i])
    /\ \A i \in DOMAIN futures :
          LET f == futures[i] IN
          /\ f.at # "describe_task_definition" => AllDone(f.lookups)
          /\ f.at = "returned" <=> f.out.kind # "Pending"
    /\ (\E i \in DOMAIN futures : futures[i].out.kind = "Err") /\ pc = "done"
          => res.kind = "Err" /\ res.val = <<>>

\* the join of the clusters is still waiting although one pagination has
\* failed: a sibling with more than one page to request has not even
\* received its first
C13_Witness ==
    /\ pc = "join_all"
    /\ res = Pending
    /\ \E i, k \in DOMAIN futures :
          /\ futures[i].out.kind = "Err"
          /\ futures[k].at = "list_services"
          /\ Len(futures[k].calls) = 1
          /\ Len(cp.servicePages[futures[k].cluster_name]) > 1

---------------------------------------------------------------------------
(* Error propagation *)

\* C14 as stated: once a remote call has failed, discover has returned the
\* error, without waiting for the lookups in flight.
C14_ImmediateAbort ==
    failures # <<>> => pc = "done" /\ res.kind = "Err"

\* the requests of a failed pagination end with the failed request, issued
\* once, or, in a batch, with the requests of the batch's lookups, one each
EndsWithFailure(f) ==
    IF f.out.err[1] = "DescribeTaskDefinition"
    THEN /\ f.lookups # <<>>
         /\ LastN(f.calls, Len(f.lookups)) =
               [j \in DOMAIN f.lookups |->
                   DescribeTaskDefinitionReq(f.lookups[j].task_definition)]
         /\ Count(f.calls, LAMBDA r : r = f.out.err) =
               Count(f.lookups,
                     LAMBDA l : DescribeTaskDefinitionReq(l.task_definition) = f.out.err)
    ELSE /\ f.calls[Len(f.calls)] = f.out.err
         /\ Count(f.calls, LAMBDA r : r = f.out.err) = 1

\* C14: a failed remote call aborts discover, after the join. A failed
\* ListClusters call ends discover at once with its error and no other call
\* is ever issued; a pagination with a failed call issues no request after
\* the failed one (after those of the failed batch) and never issues the
\* failed request again; discover has an error, one of the failures, as soon
\* as every pagination has returned, and no result before.
C14_AbortAfterJoin ==
    /\ failures # <<>> /\ failures[1][1] = "ListClusters" =>
          /\ pc = "done" /\ res = Err(failures[1])
          /\ Len(failures) = 1 /\ futures = <<>>
          /\ Count(listed, LAMBDA t : ListClustersReq(t) = failures[1]) = 1
          /\ ListClustersReq(listed[Len(listed)]) = failures[1]
    /\ \A i \in DOMAIN futures :
          futures[i].out.kind = "Err" =>
              /\ futures[i].out.err \in Range(failures)
              /\ EndsWithFailure(futures[i])
    /\ failures # <<>> =>
          /\ pc = "done" <=> AllReturned(futures)
          /\ pc = "done" => res.kind = "Err" /\ res.err \in Range(failures)
          /\ pc # "done" => res = Pending

\* a call of one pagination has failed and discover has not returned: a
\* sibling still has a request in flight
C14_Witness ==
    /\ failures # <<>>
    /\ pc # "done"
    /\ \E i, k \in DOMAIN futures :
          /\ futures[i].out = Err(failures[1])
          /\ futures[k].out = Pending
          /\ futures[k].calls # <<>>

---------------------------------------------------------------------------
(* The fan-outs *)

\* the lookups of a future whose response has not arrived
PendingLookups(f) == {j \in DOMAIN f.lookups : f.lookups[j].out.kind = "Pending"}

\* C15: concurrent fan-out. From the moment the clusters are joined every
\* pagination has issued its first ListServices request, and while a batch
\* is joined every lookup of it has issued its DescribeTaskDefinition
\* request; the response to the request of any unfinished pagination and of
\* any pending lookup can arrive next, whatever its siblings are waiting for.
C15_ConcurrentFanOut ==
    pc = "join_all" =>
        \A i \in DOMAIN futures :
            LET f == futures[i] IN
            /\ f.calls # <<>>
            /\ f.calls[1] = ListServicesReq(f.cluster_name, None)
            /\ f.at = "list_services" => ENABLED ListServicesResponse(i)
            /\ f.at = "describe_services" => ENABLED DescribeServicesResponse(i)
            /\ f.at = "describe_task_definition" =>
                  /\ PendingLookups(f) # {}
                  /\ LastN(f.calls, Len(f.lookups)) =
                        [j \in DOMAIN f.lookups |->
                            DescribeTaskDefinitionReq(f.lookups[j].task_definition)]
                  /\ \A j \in PendingLookups(f) :
                        ENABLED DescribeTaskDefinitionResponse(i, j)

\* three requests are in flight at once: two DescribeTaskDefinition calls of
\* one batch, and the first ListServices call of a sibling pagination
C15_Witness ==
    \E i, k \in DOMAIN futures :
        /\ futures[i].at = "describe_task_definition"
        /\ Cardinality(PendingLookups(futures[i])) = 2
        /\ futures[k].at = "list_services"
        /\ futures[k].cluster_name # futures[i].cluster_name
        /\ futures[k].calls = <<ListServicesReq(futures[k].cluster_name, None)>>

---------------------------------------------------------------------------
(* The requests a cluster's chain of pages calls for *)

IsPrefix(s, t) == Len(s) <= Len(t) /\ s = SubSeq(t, 1, Len(s))

\* the requests of the page a cursor names: its ListServices request; for a
\* page with identifiers, one DescribeServices request with all of them; and
\* for a response with services, one DescribeTaskDefinition request per
\* complete entry, in response order
CallsOfPage(c, token) ==
    LET n == PageOf(token)
        p == cp.servicePages[c][n]
        es == Complete(EntriesOfPage(c, n)) IN
    <<ListServicesReq(c, token)>>
    \o (IF p.fail \/ p.service_arns = None \/ p.service_arns = Some(<<>>) THEN <<>>
        ELSE <<DescribeServicesReq(c, p.service_arns[1])>>
             \o (IF DescribeServicesReq(c, p.service_arns[1]) \in cp.describeFail
                 THEN <<>>
                 ELSE [k \in DOMAIN es |->
                          DescribeTaskDefinitionReq(es[k].task_definition[1])]))

\* the requests of the chain from a cursor on, up to its first error
RECURSIVE CallsFrom(_, _)
CallsFrom(c, token) ==
    CallsOfPage(c, token)
    \o (IF ErrOfPage(c, token) # None
           \/ cp.servicePages[c][PageOf(token)].next_token = None
        THEN <<>>
        ELSE CallsFrom(c, cp.servicePages[c][PageOf(token)].next_token))

\* C16: batch resolver pairing. The requests a pagination has issued are the
\* first of those its chain calls for, in that order: per page with
\* identifiers one DescribeServices request carrying all of them, then one
\* DescribeTaskDefinition request per returned service with a
\* task-definition reference and a name, none for the others, none when the
\* response has no services list; the lookups of a batch are these pairs,
\* and a pagination that has returned has issued all these requests.
C16_BatchPairing ==
    \A i \in DOMAIN futures :
        LET f == futures[i]
            es == Complete(DescribedServices(f.service_arns)) IN
        /\ IsPrefix(f.calls, CallsFrom(f.cluster_name, None))
        /\ f.at = "returned" => f.calls = CallsFrom(f.cluster_name, None)
        /\ f.lookups # <<>> =>
              /\ Len(f.lookups) = Len(es)
              /\ \A j \in DOMAIN f.lookups :
                    /\ f.lookups[j].task_definition = es[j].task_definition[1]
                    /\ f.lookups[j].service_name = es[j].service_name[1]

\* a page of two services, one of them without a task-definition reference
\* or without a name, was resolved with one DescribeServices call and one
\* DescribeTaskDefinition call
C16_Witness ==
    \E i \in DOMAIN futures :
        LET f == futures[i] IN
        /\ f.out.kind = "Ok"
        /\ Len(DescribedServices(f.service_arns)) = 2
        /\ Len(f.calls) = 3
        /\ f.calls[2] = DescribeServicesReq(f.cluster_name, f.service_arns)
        /\ f.calls[3][1] = "DescribeTaskDefinition"

---------------------------------------------------------------------------
(* Pages without identifiers *)

\* the page a cursor names is returned without a failure and its identifier
\* list is absent or empty
EmptyPage(c, token) ==
    LET p == cp.servicePages[c][PageOf(token)] IN
    /\ ~p.fail
    /\ p.service_arns = None \/ p.service_arns = Some(<<>>)

\* the Images of the pages a pagination has requested, in request order
ImagesOfRequested(f) ==
    LET ls == CallsOf(f, "ListServices") IN
    Flatten([k \in DOMAIN ls |-> ImagesOfPage(f.cluster_name, PageOf(ls[k][3]))])

\* C17: empty-page handling. The request a pagination issues next after the
\* ListServices request of a page without identifiers is never a
\* DescribeServices request: once the page is answered it is the ListServices
\* request with the cursor the page returned, if it returned one, and
\* otherwise the pagination has returned Ok; the page adds nothing, and a
\* pagination that returns Ok returns the Images of all the pages it
\* requested, those after a page without identifiers included.
C17_EmptyPage ==
    \A i \in DOMAIN futures :
        LET f == futures[i]
            c == f.cluster_name IN
        /\ \A q \in DOMAIN f.calls :
              f.calls[q][1] = "ListServices" /\ EmptyPage(c, f.calls[q][3]) =>
                 LET p == cp.servicePages[c][PageOf(f.calls[q][3])]
                     answered == q < Len(f.calls) \/ f.at # "list_services" IN
                 /\ q < Len(f.calls) =>
                       /\ p.next_token # None
                       /\ f.calls[q + 1] = ListServicesReq(c, p.next_token)
                 /\ answered /\ p.next_token # None => q < Len(f.calls)
                 /\ answered /\ p.next_token = None => f.out.kind = "Ok"
        /\ f.out.kind = "Ok" => f.out = Ok(<<c, ImagesOfRequested(f)>>)

\* a pagination has returned Images although the first page of its chain
\* had no identifiers
C17_Witness ==
    \E i \in DOMAIN futures :
        LET f == futures[i] IN
        /\ EmptyPage(f.cluster_name, None)
        /\ f.out.kind = "Ok"
        /\ f.out.val[2] # <<>>
        /\ Len(CallsOf(f, "ListServices")) = 2

---------------------------------------------------------------------------
(* Termination *)

\* following the cursors from the first page, a chain of pages reaches a
\* page that fails or returns no cursor within `steps` further pages
RECURSIVE Ends(_, _, _)
Ends(pages, n, steps) ==
    IF pages[n].fail \/ pages[n].next_token = None THEN TRUE
    ELSE IF steps = 0 THEN FALSE
    ELSE Ends(pages, PageOf(pages[n].next_token), steps - 1)

ChainEnds(pages) == Ends(pages, 1, Len(pages))

\* the cursor chain of the clusters does not end, or it ends without a
\* failure and the chain of a cluster the filters select does not
Loops ==
    \/ ~ChainEnds(cp.clusterPages)
    \/ /\ ListedFrom(None, <<>>).kind = "Ok"
       /\ \E c \in Range(SelectSeq(ListedFrom(None, <<>>).val, Selected)) :
             ~ChainEnds(cp.servicePages[c])

\* C18: termination of discover. When every remote call returns, discover
\* returns if the cursor chain of the clusters and that of every selected
\* cluster end; if one of them returns a cursor on every page, discover
\* never returns: the loops stop on an absent cursor or a failure only.
C18_Termination ==
    /\ ~Loops => <>(pc = "done")
    /\ Loops => [](pc # "done" /\ ENABLED Next)

\* a pagination over a chain that does not end has issued as many requests
\* as its history holds and has not returned, while its sibling has
C18_Witness ==
    /\ Loops
    /\ pc = "join_all"
    /\ \E i, k \in DOMAIN futures :
          /\ Len(futures[i].calls) = MaxHistory
          /\ futures[i].out = Pending
          /\ futures[k].at = "returned"

---------------------------------------------------------------------------
(* The order of the stages *)

\* the requests of a pagination that are in flight
InFlight(f) ==
    IF f.at = "list_services"
    THEN {ListServicesReq(f.cluster_name, f.next_token)}
    ELSE IF f.at = "describe_services"
    THEN {DescribeServicesReq(f.cluster_name, f.service_arns)}
    ELSE {DescribeTaskDefinitionReq(f.lookups[j].task_definition) :
             j \in PendingLookups(f)}

\* C19: sequential ordering. No pagination exists, so no ListServices request
\* is issued, before get_clusters has fetched its final page. Within a
\* pagination: while its ListServices request of a page is in flight nothing
\* else of it is, and every lookup of the batch before has returned Ok;
\* while its DescribeServices request is in flight, no lookup exists; the
\* DescribeTaskDefinition requests of a batch follow the DescribeServices
\* request of the page, which has returned; and a ListServices request for a
\* further page follows requests that have all succeeded. The requests in
\* flight of a pagination are therefore those of one stage of one page.
C19_SequentialStages ==
    /\ futures # <<>> =>
          /\ ListerReturned /\ pc # "get_clusters"
          /\ ~cp.clusterPages[PageOf(listed[Len(listed)])].fail
          /\ cp.clusterPages[PageOf(listed[Len(listed)])].next_token = None
    /\ pc = "get_clusters" => futures = <<>>
    /\ \A i \in DOMAIN futures :
          LET f == futures[i]
              c == f.cluster_name
              n == Len(f.calls) IN
          /\ f.at = "list_services" =>
                /\ f.calls[n] = ListServicesReq(c, f.next_token)
                /\ \A j \in DOMAIN f.lookups : f.lookups[j].out.kind = "Ok"
          /\ f.at = "describe_services" =>
                /\ f.calls[n] = DescribeServicesReq(c, f.service_arns)
                /\ f.calls[n - 1] = ListServicesReq(c, f.next_token)
                /\ f.lookups = <<>>
          /\ f.at = "describe_task_definition" =>
                /\ n >= Len(f.lookups) + 2
                /\ f.calls[n - Len(f.lookups)] = DescribeServicesReq(c, f.service_arns)
                /\ f.calls[n - Len(f.lookups) - 1] = ListServicesReq(c, f.next_token)
                /\ ~DescribeServices(c, f.service_arns).fail
                /\ \A q \in (n - Len(f.lookups) + 1)..n :
                      f.calls[q][1] = "DescribeTaskDefinition"
          /\ f.at = "returned" => PendingLookups(f) = {}
          /\ \A q \in 2..n :
                f.calls[q][1] = "ListServices" =>
                   \A r \in 1..(q - 1) :
                      /\ f.calls[r][1] = "ListServices" =>
                            ~ListServices(c, f.calls[r][3]).fail
                      /\ f.calls[r][1] = "DescribeServices" =>
                            ~DescribeServices(c, f.calls[r][3]).fail
                      /\ f.calls[r][1] = "DescribeTaskDefinition" =>
                            ~DescribeTaskDefinition(f.calls[r][3][1]).fail

\* the ListServices request for the second page of a cluster is in flight
\* after the two lookups of the first page's batch have returned
C19_Witness ==
    \E i \in DOMAIN futures :
        LET f == futures[i] IN
        /\ f.at = "list_services"
        /\ f.next_token # None
        /\ Len(f.lookups) = 2
        /\ InFlight(f) = {ListServicesReq(f.cluster_name, f.next_token)}

---------------------------------------------------------------------------
(* Schedule-independence *)

\* C20: schedule-independence of the outcome. Under every interleaving of
\* the responses, what discover returns is what the control plane and the
\* filters determine: on success the mapping with each cluster's Images in
\* page order and, within a page, in the order of the services in the
\* DescribeServices response; on failure the error of the first failing
\* cluster in listing order and, within a batch, of the first failing service
\* in response order, whichever failure happened first in time.
C20_ScheduleIndependence ==
    pc = "done" => res = ExpectedOutcome

\* discover has returned the error of a cluster other than the failure that
\* happened first, after a batch completed out of input order
C20_Witness ==
    /\ pc = "done"
    /\ res.kind = "Err"
    /\ OutOfOrder
    /\ Len(failures) >= 2
    /\ res.err # failures[1]

===========================================================================
